---- MODULE Spec2Model ----
(***************************************************************************)
(* State-machine model of fetch.py: the search-API candidate collector,    *)
(* the URL classifier it relies on, and main's reconcile / fetch loop.     *)
(*                                                                         *)
(* Strings are sequences of atoms.  An atom is a run of characters that    *)
(* the classifier never needs to split: "https:", "/", ".", "-", " ", a    *)
(* word such as "statsministeren", a 4-digit year, the capital dotted I    *)
(* ("I_DOT", U+0130) and what str.lower() turns it into ("i" followed by   *)
(* the combining dot "dot_above", U+0307).  Substring tests are contiguous *)
(* sub-sequence tests, startswith/endswith are prefix/suffix tests, and    *)
(* the regex \b is decided by whether the neighbouring characters are      *)
(* word characters.  Digits occur only in year atoms.                      *)
(***************************************************************************)
EXTENDS Integers, Sequences, FiniteSets, TLC

VARIABLES
    fixture,               \* what the search API answers: one JSON body per page
    disk,                  \* taler/<year>.md : NoFile or the file's content
    disk0,                 \* the archive directory as it was before the run
    debugFile,             \* debug_api_response.json: "absent" or "written"
    pc,                    \* where main is
    page,                  \* collect_candidates_from_api: loop variable
    candidates,            \* collect_candidates_from_api / main: year -> url
    empty_pages_in_a_row,  \* collect_candidates_from_api: early-stop counter
    missing,               \* main: missing years, newest first
    todo,                  \* main: what is left of `for year in sorted(missing)`
    wrote,                 \* main: files written
    exitStatus,            \* the process's exit status, -1 while it runs
    log,                   \* every request, fetch, write and sleep, in order
    run,                   \* which call of collect_candidates_from_api this is
    first                  \* what the first call requested and returned

vars == <<fixture, disk, disk0, debugFile, pc, page, candidates,
          empty_pages_in_a_row, missing, todo, wrote, exitStatus, log, run, first>>

----------------------------------------------------------------------------
(* Bounds of the model                                                     *)

\* Pages the search API answers with a body of their own; every later page
\* repeats the last of them.
MaxDistinctPages == 5

\* Longest raw string, in pieces, the classifier is tried on.
MaxPieces == 4

----------------------------------------------------------------------------
(* Program constants                                                       *)

MAX_PAGES == 20

MIN_TEXT_LEN == 400

BASE_URL == <<"https:", "/", "/", "stm", ".", "dk">>

SPEECH_PATH_HINTS ==
    { <<"/", "statsministeren", "/", "taler", "/">>,
      <<"/", "statsministeren", "/", "nytaarstale", "r", "-", "siden", "-", "1940", "/">> }

NYTAAR_HINTS == { <<"nytaarstale">>, <<"nyt_aring_r", "stale">>, <<"nyt_aring_r">> }

\* The atoms (19|20)\d{2} matches.
YearAtoms == {"1940", "2021", "2022"}

\* int(m.group(0))
YearValue(a) ==
    CASE a = "1940" -> 1940
      [] a = "2021" -> 2021
      [] a = "2022" -> 2022

----------------------------------------------------------------------------
(* Strings                                                                 *)

\* Atoms whose first / last character is not a word character (\w).
NonWordAtoms == {"/", ".", "-", " ", "dot_above"}

FirstIsWord(a) == a \notin NonWordAtoms

LastIsWord(a) == a \notin (NonWordAtoms \cup {"https:"})

\* str.lower(): the capital dotted I becomes "i" and a combining dot;
\* an upper-case word becomes its lower-case atom ("nyt_aring_r" stands
\* for the word spelt with a-ring, which the hints name).
LowerAtom(a) ==
    CASE a = "I_DOT"       -> <<"i", "dot_above">>
      [] a = "NYTAARSTALE" -> <<"nytaarstale">>
      [] a = "STM"         -> <<"stm">>
      [] OTHER             -> <<a>>

RECURSIVE Lower(_)
Lower(s) == IF s = <<>> THEN <<>> ELSE LowerAtom(Head(s)) \o Lower(Tail(s))

StartsWith(s, p) == Len(s) >= Len(p) /\ SubSeq(s, 1, Len(p)) = p

EndsWith(s, p) == Len(s) >= Len(p) /\ SubSeq(s, Len(s) - Len(p) + 1, Len(s)) = p

\* h in s
Contains(s, h) ==
    \E i \in 1..(Len(s) - Len(h) + 1) : SubSeq(s, i, i + Len(h) - 1) = h

RECURSIVE LStrip(_)
LStrip(s) == IF s # <<>> /\ Head(s) = " " THEN LStrip(Tail(s)) ELSE s

RECURSIVE RStrip(_)
RStrip(s) ==
    IF s # <<>> /\ s[Len(s)] = " " THEN RStrip(SubSeq(s, 1, Len(s) - 1)) ELSE s

Strip(s) == RStrip(LStrip(s))

\* Index of the first "/" of s at or after i, Len(s) + 1 if there is none.
RECURSIVE NextSlash(_, _)
NextSlash(s, i) ==
    IF i > Len(s) THEN Len(s) + 1
    ELSE IF s[i] = "/" THEN i ELSE NextSlash(s, i + 1)

\* urlparse(url).netloc: what follows "//" up to the next "/".
Netloc(url) ==
    LET from == IF StartsWith(url, <<"https:", "/", "/">>) THEN 4
                ELSE IF StartsWith(url, <<"/", "/">>) THEN 3
                ELSE 0
    IN IF from = 0 THEN <<>> ELSE SubSeq(url, from, NextSlash(url, from) - 1)

\* urljoin(BASE_URL, s) for s starting with "/": a protocol-relative s
\* ("//host/...") keeps its own host, anything else is a path on BASE_URL.
UrlJoin(s) ==
    IF StartsWith(s, <<"/", "/">>)
    THEN IF Netloc(s) # <<>>
         THEN <<"https:">> \o s
         ELSE BASE_URL \o SubSeq(s, 3, Len(s))
    ELSE BASE_URL \o s

\* The value normalize_url returns for "not a URL".
None == <<>>

normalize_url(raw) ==
    LET s == Strip(raw)
    IN IF s = <<>> THEN None
       ELSE IF StartsWith(s, <<"https:", "/", "/">>) THEN s
       ELSE IF Head(s) = "/" THEN UrlJoin(s)
       ELSE None

is_stm_url(url) ==
    LET host == Lower(Netloc(url))
    IN host = <<"stm", ".", "dk">> \/ EndsWith(host, <<".", "stm", ".", "dk">>)

\* Index of the atom YEAR_RE.search(s) matches, 0 if it matches nothing.
RECURSIVE YearSearchFrom(_, _)
YearSearchFrom(s, i) ==
    IF i > Len(s) THEN 0
    ELSE IF /\ s[i] \in YearAtoms
            /\ (i = 1 \/ ~LastIsWord(s[i - 1]))
            /\ (i = Len(s) \/ ~FirstIsWord(s[i + 1]))
         THEN i
         ELSE YearSearchFrom(s, i + 1)

YearSearch(s) == YearSearchFrom(s, 1)

looks_like_new_year_speech_url_NoDomainCheck(url) ==
    LET u == Lower(url)
    IN /\ \E h \in SPEECH_PATH_HINTS : Contains(u, h)
       /\ \E h \in NYTAAR_HINTS : Contains(u, h)
       /\ YearSearch(u) # 0

looks_like_new_year_speech_url(url) ==
    LET u == Lower(url)
    IN /\ is_stm_url(url)
       /\ \E h \in SPEECH_PATH_HINTS : Contains(u, h)
       /\ \E h \in NYTAAR_HINTS : Contains(u, h)
       /\ YearSearch(u) # 0

----------------------------------------------------------------------------
(* JSON bodies: [t |-> "str", v |-> string], [t |-> "list", v |-> items],  *)
(* [t |-> "dict", v |-> values in insertion order], [t |-> "other"].       *)

Str(s) == [t |-> "str", v |-> s]

List(items) == [t |-> "list", v |-> items]

Dict(values) == [t |-> "dict", v |-> values]

Other == [t |-> "other", v |-> <<>>]

RECURSIVE iter_strings(_)
iter_strings(obj) ==
    LET RECURSIVE Each(_)
        Each(vs) == IF vs = <<>> THEN <<>>
                    ELSE iter_strings(Head(vs)) \o Each(Tail(vs))
    IN CASE obj.t = "dict" -> Each(obj.v)
         [] obj.t = "list" -> Each(obj.v)
         [] obj.t = "str"  -> <<obj.v>>
         [] OTHER          -> <<>>

----------------------------------------------------------------------------
(* The search API's answers and the pages behind the candidate URLs        *)

TITLE == <<"nyt_aring_r", "stale", " ", "2021">>

URL_A == <<"/", "statsministeren", "/", "taler", "/", "nytaarstale", "-", "2021">>

URL_B == <<"https:", "/", "/", "www", ".", "stm", ".", "dk", "/", "statsministeren",
           "/", "taler", "/", "nytaarstale", "-", "2021", "/">>

URL_C == <<"https:", "/", "/", "STM", ".", "dk", "/", "statsministeren", "/", "taler",
           "/", "NYTAARSTALE", "-", "2021">>

URL_2022 == <<" ", "https:", "/", "/", "stm", ".", "dk", "/", "statsministeren", "/",
              "taler", "/", "nytaarstale", "-", "2022", " ">>

\* Not on stm.dk.
URL_EXTERNAL == <<"https:", "/", "/", "evil", ".", "dk", "/", "statsministeren", "/",
                  "taler", "/", "nytaarstale", "-", "2021">>

\* A year only after lower-casing: \b does not match between the dotted I
\* and the digit, and does match between the combining dot and the digit.
URL_DOTTED == <<"/", "statsministeren", "/", "taler", "/", "nytaarstale", "-",
                "I_DOT", "2021">>

\* {"TotalCount": 0, "Items": [{"Title": ..., "Url": ...}], "Next": ...}
BodyNone ==
    Dict(<<Other, List(<<Dict(<<Str(TITLE), Str(URL_EXTERNAL)>>)>>), Str(URL_DOTTED)>>)

BodyA == Dict(<<Other, List(<<Dict(<<Str(TITLE), Str(URL_A)>>)>>)>>)

BodyB ==
    Dict(<<List(<<Dict(<<Str(URL_B), Other>>), Dict(<<Str(URL_C)>>),
                  Dict(<<Str(URL_2022)>>)>>)>>)

Bodies == {BodyNone, BodyA, BodyB}

\* The body the search API answers page p with.
PageBody(p) == fixture[IF p <= Len(fixture) THEN p ELSE Len(fixture)]

\* What a GET of a speech page can return: with or without an <h1>, with
\* paragraph text just under or just at the plausibility threshold.
HtmlPages == [got : {"html"}, h1 : BOOLEAN, textLen : {MIN_TEXT_LEN - 1, MIN_TEXT_LEN}]

\* get_html raises: a transport error or a non-2xx status.
GetFailed == [got |-> "error", h1 |-> FALSE, textLen |-> 0]

ArchiveYears == {YearValue(a) : a \in YearAtoms}

\* The years the search API's bodies mention; only their files are ever
\* looked for.
SearchableYears == {2021, 2022}

NoFile == [kind |-> "none"]

OldFile == [kind |-> "old"]

PartialFile == [kind |-> "partial"]

----------------------------------------------------------------------------
(* collect_candidates_from_api                                             *)

EmptyMap == [y \in {} |-> <<>>]

SetDefault_Overwrite(c, year, url) ==
    [y \in DOMAIN c \cup {year} |-> IF y = year THEN url ELSE c[y]]

\* candidates.setdefault(year, url)
SetDefault(c, year, url) ==
    [y \in DOMAIN c \cup {year} |-> IF y \in DOMAIN c THEN c[y] ELSE url]

ScanString_CountsNew(acc, s) ==
    LET url == normalize_url(s)
    IN IF url = None THEN acc
       ELSE IF ~looks_like_new_year_speech_url(url) THEN acc
       ELSE LET m == YearSearch(url)
            IN IF m = 0 THEN acc
               ELSE [candidates |-> SetDefault(acc.candidates, YearValue(url[m]), url),
                     found |-> IF YearValue(url[m]) \in DOMAIN acc.candidates
                               THEN acc.found ELSE acc.found + 1]

\* One turn of `for s in iter_strings(data)`; acc is candidates and
\* found_on_page.
ScanString(acc, s) ==
    LET url == normalize_url(s)
    IN IF url = None THEN acc
       ELSE IF ~looks_like_new_year_speech_url(url) THEN acc
       ELSE LET m == YearSearch(url)
            IN IF m = 0 THEN acc
               ELSE [candidates |-> SetDefault(acc.candidates, YearValue(url[m]), url),
                     found |-> acc.found + 1]

RECURSIVE ScanStrings(_, _)
ScanStrings(acc, strings) ==
    IF strings = <<>> THEN acc
    ELSE ScanStrings(ScanString(acc, Head(strings)), Tail(strings))

\* The scan of one response body, starting from the candidates so far.
ScanPage(c, data) == ScanStrings([candidates |-> c, found |-> 0], iter_strings(data))

EarlyStop_ThreeEmpty(e, p) == e >= 3 /\ p >= 3

EarlyStop_FromPageTwo(e, p) == e >= 2 /\ p >= 2

\* if empty_pages_in_a_row >= 2 and page >= 3: break
EarlyStop(e, p) == e >= 2 /\ p >= 3

Event(e, a) == [ev |-> e, arg |-> a]

StartCollect_KeepsCursor ==
    /\ pc = "start"
    /\ pc' = "collect"
    /\ candidates' = EmptyMap
    /\ empty_pages_in_a_row' = 0
    /\ page' = IF page = 0 THEN 1 ELSE page
    /\ UNCHANGED <<fixture, disk, disk0, debugFile, missing, todo, wrote, exitStatus,
                   log, run, first>>

\* The call: candidates = {}, empty_pages_in_a_row = 0, page = 1.
StartCollect ==
    /\ pc = "start"
    /\ pc' = "collect"
    /\ candidates' = EmptyMap
    /\ empty_pages_in_a_row' = 0
    /\ page' = 1
    /\ UNCHANGED <<fixture, disk, disk0, debugFile, missing, todo, wrote, exitStatus,
                   log, run, first>>

\* One turn of the paging loop whose request succeeds.
SearchPageOk ==
    /\ pc = "collect"
    /\ LET r == ScanPage(candidates, PageBody(page))
           e == IF r.found = 0 THEN empty_pages_in_a_row + 1 ELSE 0
       IN /\ candidates' = r.candidates
          /\ empty_pages_in_a_row' = e
          /\ log' = Append(log, Event("search", page))
          /\ IF EarlyStop(e, page) \/ page = MAX_PAGES
             THEN pc' = "collected" /\ page' = page
             ELSE pc' = "collect" /\ page' = page + 1
    /\ UNCHANGED <<fixture, disk, disk0, debugFile, missing, todo, wrote, exitStatus,
                   run, first>>

\* What __main__ prints for a RequestException and for any other exception.
StderrLines == {"HTTP ERROR", "ERROR"}

SearchPageFails_Swallowed ==
    /\ pc = "collect"
    /\ \E err \in StderrLines :
         log' = log \o <<Event("search", page), Event("search_failed", page),
                         Event(err, 0)>>
    /\ pc' = "collected"
    /\ UNCHANGED <<fixture, disk, disk0, debugFile, page, candidates,
                   empty_pages_in_a_row, missing, todo, wrote, exitStatus, run, first>>

\* One turn of the paging loop whose request fails: post_json raises a
\* RequestException (transport, non-2xx) or a RuntimeError (not JSON),
\* nothing catches it before __main__, which prints and exits with 1.
SearchPageFails ==
    /\ pc = "collect"
    /\ \E err \in StderrLines :
         log' = log \o <<Event("search", page), Event("search_failed", page),
                         Event(err, 0)>>
    /\ pc' = "done"
    /\ exitStatus' = 1
    /\ UNCHANGED <<fixture, disk, disk0, debugFile, page, candidates,
                   empty_pages_in_a_row, missing, todo, wrote, run, first>>

----------------------------------------------------------------------------
(* main                                                                    *)

DebugDump_ReturnsZero ==
    /\ pc = "collected"
    /\ candidates = EmptyMap
    /\ log' = log \o <<Event("debug_search", 1), Event("debug_written", 1)>>
    /\ debugFile' = "written"
    /\ pc' = "done"
    /\ exitStatus' = 0
    /\ UNCHANGED <<fixture, disk, disk0, page, candidates, empty_pages_in_a_row,
                   missing, todo, wrote, run, first>>

\* if not candidates: page 1 is requested again and dumped, then main
\* raises a RuntimeError; when the request itself fails, post_json's
\* exception leaves main before anything is dumped.  Either way __main__
\* prints and exits with 1.
DebugDump ==
    /\ pc = "collected"
    /\ candidates = EmptyMap
    /\ \E failed \in BOOLEAN, err \in StderrLines :
         IF failed
         THEN /\ log' = log \o <<Event("debug_search", 1), Event("debug_failed", 1),
                                 Event(err, 0)>>
              /\ debugFile' = debugFile
         ELSE /\ err = "ERROR"
              /\ log' = log \o <<Event("debug_search", 1), Event("debug_written", 1),
                                 Event(err, 0)>>
              /\ debugFile' = "written"
    /\ pc' = "done"
    /\ exitStatus' = 1
    /\ UNCHANGED <<fixture, disk, disk0, page, candidates, empty_pages_in_a_row,
                   missing, todo, wrote, run, first>>

\* sorted(S, reverse=True)
RECURSIVE SortDesc(_)
SortDesc(S) ==
    IF S = {} THEN <<>>
    ELSE LET m == CHOOSE x \in S : \A y \in S : y <= x
         IN <<m>> \o SortDesc(S \ {m})

\* sorted(S)
RECURSIVE SortAsc(_)
SortAsc(S) ==
    IF S = {} THEN <<>>
    ELSE LET m == CHOOSE x \in S : \A y \in S : x <= y
         IN <<m>> \o SortAsc(S \ {m})

Range(q) == {q[i] : i \in 1..Len(q)}

MissingYears_NoExistsCheck(c, d) == SortDesc(DOMAIN c)

\* missing = [y for y in years_sorted if not (out_dir / f"{y}.md").exists()]
MissingYears(c, d) == SelectSeq(SortDesc(DOMAIN c), LAMBDA y : d[y] = NoFile)

LoopOrder_SkipsOldest(m) == Tail(SortAsc(Range(m)))

LoopOrder_AsReported(m) == m

\* for year in sorted(missing)
LoopOrder(m) == SortAsc(Range(m))

\* Determine what's missing; return 0 if nothing is.
Reconcile ==
    /\ pc = "collected"
    /\ candidates # EmptyMap
    /\ LET m == MissingYears(candidates, disk)
       IN /\ missing' = m
          /\ IF m = <<>>
             THEN pc' = "done" /\ exitStatus' = 0 /\ UNCHANGED <<todo, wrote>>
             ELSE pc' = "fetch" /\ todo' = LoopOrder(m) /\ wrote' = 0
                  /\ UNCHANGED exitStatus
    /\ UNCHANGED <<fixture, disk, disk0, debugFile, page, candidates,
                   empty_pages_in_a_row, log, run, first>>

\* extract_title_and_text: the title, or "" when the text is too short
\* (RuntimeError).
DEFAULT_TITLE == "Statsministerens nytaarstale"

extract_title_and_text(html) ==
    IF html.textLen < MIN_TEXT_LEN THEN [ok |-> FALSE]
    ELSE [ok |-> TRUE,
          title |-> IF html.h1 THEN "h1" ELSE DEFAULT_TITLE,
          textLen |-> html.textLen]

\* The file write_markdown writes.
Markdown(title, source_url, textLen) ==
    [kind |-> "md", title |-> title, source_url |-> source_url, textLen |-> textLen]

RestAfterFailure_Abort(t) == <<>>

RestAfterFailure_Retry(t) == t

\* except Exception: report and continue with the next year
RestAfterFailure(t) == Tail(t)

\* One turn of `for year in sorted(missing)`: get_html, extraction and
\* write_markdown each succeed or raise; a failed write leaves no file or a
\* truncated one.
FetchYear ==
    /\ pc = "fetch"
    /\ todo # <<>>
    /\ LET year == Head(todo)
           url == candidates[year]
       IN \E got \in {GetFailed} \cup HtmlPages, w \in {"ok", "no_file", "truncated"} :
            LET fetched == got.got = "html"
                ex == IF fetched THEN extract_title_and_text(got) ELSE [ok |-> FALSE]
                l1 == Append(log, Event("fetch", year))
                l2 == Append(l1, Event("write", year))
            IN IF fetched /\ ex.ok /\ w = "ok"
               THEN /\ disk' = [disk EXCEPT ![year] = Markdown(ex.title, url, ex.textLen)]
                    /\ wrote' = wrote + 1
                    /\ log' = Append(l2, Event("sleep", year))
                    /\ todo' = Tail(todo)
               ELSE /\ disk' = IF fetched /\ ex.ok /\ w = "truncated"
                               THEN [disk EXCEPT ![year] = PartialFile]
                               ELSE disk
                    /\ wrote' = wrote
                    /\ log' = Append(IF fetched /\ ex.ok THEN l2 ELSE l1,
                                     Event("WARNING", year))
                    /\ todo' = RestAfterFailure(todo)
    /\ UNCHANGED <<fixture, disk0, debugFile, pc, page, candidates,
                   empty_pages_in_a_row, missing, exitStatus, run, first>>

ExitCode_AlwaysZero(w) == 0

\* return 1 if wrote == 0 else 0
ExitCode(w) == IF w = 0 THEN 1 ELSE 0

Finish ==
    /\ pc = "fetch"
    /\ todo = <<>>
    /\ pc' = "done"
    /\ exitStatus' = ExitCode(wrote)
    /\ UNCHANGED <<fixture, disk, disk0, debugFile, page, candidates,
                   empty_pages_in_a_row, missing, todo, wrote, log, run, first>>

----------------------------------------------------------------------------
(* One run of the script against any answers of the search API, any        *)
(* archive directory and any outcome of each page fetch.                   *)

Init ==
    /\ fixture \in [1..MaxDistinctPages -> Bodies]
    /\ \E old \in SUBSET SearchableYears :
         disk0 = [y \in ArchiveYears |-> IF y \in old THEN OldFile ELSE NoFile]
    /\ disk = disk0
    /\ debugFile = "absent"
    /\ pc = "start"
    /\ page = 0
    /\ candidates = EmptyMap
    /\ empty_pages_in_a_row = 0
    /\ missing = <<>>
    /\ todo = <<>>
    /\ wrote = 0
    /\ exitStatus = -1
    /\ log = <<>>
    /\ run = 1
    /\ first = [candidates |-> EmptyMap, requests |-> <<>>]

Next ==
    \/ StartCollect
    \/ SearchPageOk
    \/ SearchPageFails
    \/ DebugDump
    \/ Reconcile
    \/ FetchYear
    \/ Finish

Spec == Init /\ [][Next]_vars

\* The same run, given that the single thread always takes its next step:
\* every request returns or raises within its timeout, and nothing else
\* blocks.  The fair action is Next; the failing request is named first so
\* that whether a step is possible is decided without scanning a body.
SpecLive == Init /\ [][Next]_vars /\ WF_vars(SearchPageFails \/ Next)

----------------------------------------------------------------------------
(* The classifier and the scan of one response, on every raw string of up  *)
(* to MaxPieces pieces.                                                    *)

Pieces ==
    { <<"https:", "/", "/">>, <<"stm", ".", "dk">>, <<"www", ".">>,
      <<"/", "statsministeren", "/", "taler", "/">>,
      <<"/", "statsministeren", "/", "nytaarstale", "r", "-", "siden", "-", "1940", "/">>,
      <<"nytaarstale">>, <<"-">>, <<"/">>, <<"2021">>, <<"I_DOT">>, <<" ">> }

RECURSIVE Flatten(_)
Flatten(q) == IF q = <<>> THEN <<>> ELSE Head(q) \o Flatten(Tail(q))

RawStrings == {Flatten(q) : q \in UNION {[1..n -> Pieces] : n \in 0..MaxPieces}}

InitURL ==
    /\ fixture \in {<<Str(s)>> : s \in RawStrings}
    /\ disk0 = [y \in ArchiveYears |-> NoFile]
    /\ disk = disk0
    /\ debugFile = "absent"
    /\ pc = "scan"
    /\ page = 1
    /\ candidates = EmptyMap
    /\ empty_pages_in_a_row = 0
    /\ missing = <<>>
    /\ todo = <<>>
    /\ wrote = 0
    /\ exitStatus = -1
    /\ log = <<>>
    /\ run = 1
    /\ first = [candidates |-> EmptyMap, requests |-> <<>>]

\* The scan of the page's response, without the paging around it.
ScanResponse ==
    /\ pc = "scan"
    /\ candidates' = ScanPage(candidates, PageBody(page)).candidates
    /\ pc' = "scanned"
    /\ UNCHANGED <<fixture, disk, disk0, debugFile, page, empty_pages_in_a_row,
                   missing, todo, wrote, exitStatus, log, run, first>>

NextURL == ScanResponse

SpecURL == InitURL /\ [][NextURL]_vars

----------------------------------------------------------------------------
(* collect_candidates_from_api called twice against the same answers.      *)

InitIdem == Init /\ disk0 = [y \in ArchiveYears |-> NoFile]

\* The first call has returned; its requests and its result are kept and
\* the function is called again.
CallAgain ==
    /\ pc = "collected"
    /\ run = 1
    /\ first' = [candidates |-> candidates, requests |-> log]
    /\ run' = 2
    /\ log' = <<>>
    /\ pc' = "start"
    /\ UNCHANGED <<fixture, disk, disk0, debugFile, page, candidates,
                   empty_pages_in_a_row, missing, todo, wrote, exitStatus>>

NextIdem ==
    \/ StartCollect
    \/ SearchPageOk
    \/ CallAgain

SpecIdem == InitIdem /\ [][NextIdem]_vars

----------------------------------------------------------------------------
(* What the claims speak of                                                *)

EventsOf(kind) == SelectSeq(log, LAMBDA e : e.ev = kind)

ArgsOf(kind) == [i \in 1..Len(EventsOf(kind)) |-> EventsOf(kind)[i].arg]

\* The pages requested by collect_candidates_from_api, in order.
SearchedPages == ArgsOf("search")

FetchedYears == ArgsOf("fetch")

SearchFailed == EventsOf("search_failed") # <<>>

DebugFailed == EventsOf("debug_failed") # <<>>

\* collect_candidates_from_api has returned its mapping.
CollectionReturned == pc \in {"collected", "fetch", "done"} /\ ~SearchFailed

\* found_on_page after the scan of each body.
FoundTable == [b \in Bodies |-> ScanPage(EmptyMap, b).found]

\* The number of matches page p yields.
Found(p) == FoundTable[PageBody(p)]

\* The (year, url) a raw string yields, <<>> if it yields none.
MatchOf(s) ==
    LET url == normalize_url(s)
    IN IF url # None /\ looks_like_new_year_speech_url(url) /\ YearSearch(url) # 0
       THEN <<YearValue(url[YearSearch(url)]), url>>
       ELSE <<>>

BodyMatches(b) ==
    LET ss == iter_strings(b)
        ms == [i \in 1..Len(ss) |-> MatchOf(ss[i])]
    IN SelectSeq(ms, LAMBDA m : m # <<>>)

BodyMatchTable == [b \in Bodies |-> BodyMatches(b)]

\* The matches of all pages scanned so far, in the order they were seen.
RECURSIVE MatchesUpTo(_)
MatchesUpTo(n) ==
    IF n = 0 THEN <<>>
    ELSE MatchesUpTo(n - 1) \o BodyMatchTable[PageBody(SearchedPages[n])]

MatchesSeen == MatchesUpTo(Len(SearchedPages) - Len(EventsOf("search_failed")))

NoDuplicates(q) == \A i, j \in 1..Len(q) : q[i] = q[j] => i = j

\* The candidate years with no archive file when main looks.
MissingSet == {y \in DOMAIN candidates : disk0[y] = NoFile}

\* main got past the reconciliation.
Reconciled == pc = "fetch" \/ (pc = "done" /\ candidates # EmptyMap /\ ~SearchFailed)

\* The years whose file this run wrote in full.
WrittenYears == {y \in ArchiveYears : disk[y].kind = "md"}

WarnedYears == Range(ArgsOf("WARNING"))

----------------------------------------------------------------------------
(* C1 *)

\* C1 as stated: when pages 3 and 4 yield no match and no request fails,
\* the pages requested are exactly 1, 2, 3, 4.
C1_PageFourIsLast ==
    (CollectionReturned /\ Found(3) = 0 /\ Found(4) = 0)
        => SearchedPages = <<1, 2, 3, 4>>

\* C1, amended: when pages 3 and 4 yield no match, page 5 is never
\* requested; once collection has returned without a failed request, the
\* pages requested are 1..4 if page 2 yielded a match and 1..3 if it did not.
C1_StopsByPageFour ==
    (Found(3) = 0 /\ Found(4) = 0)
        => /\ \A i \in 1..Len(SearchedPages) : SearchedPages[i] <= 4
           /\ CollectionReturned
                => SearchedPages = IF Found(2) = 0 THEN <<1, 2, 3>> ELSE <<1, 2, 3, 4>>

\* Pages 3 and 4 are empty, page 5 is not, and paging stopped after page 4.
C1_Witness ==
    /\ CollectionReturned
    /\ Found(2) > 0 /\ Found(3) = 0 /\ Found(4) = 0 /\ Found(5) > 0
    /\ SearchedPages = <<1, 2, 3, 4>>

(* C2 *)

\* C2: the mapping holds, for every year, the url of the first match for
\* that year among all strings scanned so far, and no year without a match.
C2_FirstSeenWins ==
    \A y \in ArchiveYears :
        LET ms == MatchesSeen
            at == {i \in 1..Len(ms) : ms[i][1] = y}
        IN IF at = {} THEN y \notin DOMAIN candidates
           ELSE /\ y \in DOMAIN candidates
                /\ candidates[y] = ms[CHOOSE i \in at : \A j \in at : i <= j][2]

\* A year was seen with two different urls, on one page and across pages.
C2_Witness ==
    /\ pc = "collected"
    /\ candidates # EmptyMap
    /\ \E i, j, k \in 1..Len(MatchesSeen) :
         /\ i < j /\ j < k
         /\ MatchesSeen[i][1] = MatchesSeen[j][1] /\ MatchesSeen[j][1] = MatchesSeen[k][1]
         /\ MatchesSeen[i][2] # MatchesSeen[j][2] /\ MatchesSeen[j][2] # MatchesSeen[k][2]
         /\ MatchesSeen[i][2] # MatchesSeen[k][2]

(* C3 *)

\* C3: every archive file that existed before the run is there unchanged,
\* write_markdown was never called for its year, and every file the run
\* has written is still there.
C3_ArchiveOnlyGrows ==
    /\ \A y \in ArchiveYears :
         disk0[y] # NoFile
             => disk[y] = disk0[y] /\ y \notin Range(ArgsOf("write"))
    /\ \A y \in Range(ArgsOf("sleep")) : disk[y].kind = "md"

\* A candidate year was already archived and another one was written.
C3_Witness ==
    /\ pc = "done"
    /\ \E y \in DOMAIN candidates : disk0[y] = OldFile
    /\ WrittenYears # {}

(* C4 *)

\* C4: only candidate years with no archive file are fetched, none twice,
\* and by the end of a run that got past the reconciliation all of them.
C4_FetchesExactlyMissing ==
    /\ Range(FetchedYears) \subseteq MissingSet
    /\ NoDuplicates(FetchedYears)
    /\ (pc = "done" /\ Reconciled) => Range(FetchedYears) = MissingSet

\* On disk {2021}, candidates {2021, 2022}: one fetch, for 2022.
C4_Witness ==
    /\ pc = "done"
    /\ DOMAIN candidates = {2021, 2022}
    /\ disk0[2021] = OldFile /\ disk0[2022] = NoFile
    /\ FetchedYears = <<2022>>

(* C5 *)

\* C5: by the end of the fetch loop every missing year was attempted, and
\* every missing year that raised nothing has its file.
C5_FailureIsolation ==
    (pc = "done" /\ Reconciled)
        => /\ MissingSet \subseteq Range(FetchedYears)
           /\ \A y \in MissingSet : y \notin WarnedYears => disk[y].kind = "md"

\* The older missing year failed and the newer one was written.
C5_Witness ==
    /\ pc = "done"
    /\ \E a, b \in MissingSet : a < b /\ a \in WarnedYears /\ disk[b].kind = "md"

(* C6 *)

\* C6: after a collection that returned candidates, main exits with 0 iff
\* nothing was missing or a file was written, and with 1 iff something was
\* missing and no file was written.
C6_RunResult ==
    (pc = "done" /\ Reconciled)
        => /\ exitStatus = 0 <=> (MissingSet = {} \/ WrittenYears # {})
           /\ exitStatus = 1 <=> (MissingSet # {} /\ WrittenYears = {})

\* Two years were missing, both failed, and the run exits with 1.
C6_Witness ==
    /\ pc = "done" /\ Reconciled
    /\ Cardinality(MissingSet) = 2
    /\ WrittenYears = {}
    /\ exitStatus = 1

(* C7 *)

C8_DiscoveryErrorAborts ==
    (SearchFailed \/ DebugFailed)
        => /\ pc = "done"
           /\ exitStatus = 1
           /\ Len(log) >= 3
           /\ log[Len(log) - 1].ev \in {"search_failed", "debug_failed"}
           /\ log[Len(log) - 2].ev \in {"search", "debug_search"}
           /\ Len(EventsOf("search_failed")) + Len(EventsOf("debug_failed")) = 1
           /\ FetchedYears = <<>>
           /\ ArgsOf("write") = <<>>
           /\ disk = disk0
           /\ debugFile = "absent"

\* A request failed after candidates for missing years were recorded.
C8_Witness ==
    /\ SearchFailed
    /\ Len(SearchedPages) >= 2
    /\ MissingSet # {}

(* C9 *)

Classified ==
    LET ss == Range(iter_strings(PageBody(page)))
    IN ss \cup {normalize_url(s) : s \in ss}

\* C10 as stated: every string classified as a yearly-speech URL is on
\* stm.dk and contains a year token; every recorded entry has a url on
\* stm.dk and the year of that url's first year token.
C10_ClassifiedHasYear ==
    pc = "scanned"
        => /\ \A s \in Classified :
                looks_like_new_year_speech_url(s) => is_stm_url(s) /\ YearSearch(s) # 0
           /\ \A y \in DOMAIN candidates :
                /\ is_stm_url(candidates[y])
                /\ YearSearch(candidates[y]) # 0
                /\ y = YearValue(candidates[y][YearSearch(candidates[y])])

\* C10, amended: every string classified as a yearly-speech URL is on
\* stm.dk and its lower-cased form contains a year token; every recorded
\* entry has a url on stm.dk and the year of that url's first year token.
C10_ClassifiedLowerHasYear ==
    pc = "scanned"
        => /\ \A s \in Classified :
                looks_like_new_year_speech_url(s)
                    => is_stm_url(s) /\ YearSearch(Lower(s)) # 0
           /\ \A y \in DOMAIN candidates :
                /\ is_stm_url(candidates[y])
                /\ YearSearch(candidates[y]) # 0
                /\ y = YearValue(candidates[y][YearSearch(candidates[y])])

\* A url with two year tokens was classified and recorded under the first.
C10_Witness ==
    /\ pc = "scanned"
    /\ 2021 \in DOMAIN candidates
    /\ Contains(candidates[2021], <<"1940">>)

(* C11 *)

\* Pages p - 1 and p both yielded no match, and p is at least 3.
TwoEmptyAt(p) == p >= 3 /\ Found(p - 1) = 0 /\ Found(p) = 0

\* The smallest such page, MAX_PAGES if there is none.
RECURSIVE FirstTwoEmptyFrom(_)
FirstTwoEmptyFrom(p) ==
    IF p >= MAX_PAGES \/ TwoEmptyAt(p) THEN p ELSE FirstTwoEmptyFrom(p + 1)

LastPage == FirstTwoEmptyFrom(3)

\* C11: while no request fails, the pages are requested in the order 1, 2,
\* 3, ... and never past the smallest page p >= 3 such that p - 1 and p both
\* yielded no match (MAX_PAGES if there is none); once collection has
\* returned, that page is the last one requested, so pages 1, 2 and 3 always
\* are, and the page after a single empty page between two non-empty ones is.
C11_EarlyStopRule ==
    LET n == Len(SearchedPages)
    IN ~SearchFailed
        => /\ SearchedPages = [i \in 1..n |-> i]
           /\ n <= LastPage
           /\ CollectionReturned
                => /\ n = LastPage
                   /\ n >= 3
                   /\ \A p \in 2..n :
                        (/\ p < MAX_PAGES
                         /\ Found(p - 1) > 0 /\ Found(p) = 0 /\ Found(p + 1) > 0)
                            => n > p

\* Pages 1 and 2 are empty, page 4 is a single empty page between non-empty
\* ones, and paging went on to MAX_PAGES.
C11_Witness ==
    /\ CollectionReturned
    /\ Found(1) = 0 /\ Found(2) = 0 /\ Found(3) > 0 /\ Found(4) = 0 /\ Found(5) > 0
    /\ Len(SearchedPages) = MAX_PAGES

(* C12 *)

\* The log positions of the events of one kind.
At(kind) == {i \in 1..Len(log) : log[i].ev = kind}

\* C12: a delay lies between every two successive page fetches, whatever
\* became of the earlier one, and none between two search requests.
C12_DelayBetweenFetches ==
    /\ \A i, j \in At("fetch") : i < j => \E k \in i..j : log[k].ev = "sleep"
    /\ \A i, j \in At("search") : i < j => ~\E k \in i..j : log[k].ev = "sleep"

\* The older missing year failed and the fetch for the next one followed
\* its warning at once.
C12_Witness ==
    \E i \in 1..(Len(log) - 1) :
        /\ log[i].ev = "WARNING"
        /\ log[i + 1].ev = "fetch"
        /\ log[i].arg < log[i + 1].arg

(* C13 *)

\* The log positions of what the fetch loop did.
LoopAt == {i \in 1..Len(log) : log[i].ev \in {"fetch", "write", "sleep", "WARNING"}}

\* C13: the missing years are fetched in strictly ascending order, all the
\* loop does for a year comes before anything it does for a later year, and
\* a year's turn is over (written and slept, or warned about) before the
\* next fetch starts.
C13_OldestFirst ==
    /\ \A i, j \in At("fetch") : i < j => log[i].arg < log[j].arg
    /\ \A i, j \in LoopAt : i < j => log[i].arg <= log[j].arg
    /\ \A i, j \in At("fetch") :
         i < j => \E k \in (i + 1)..(j - 1) :
                     log[k].ev \in {"sleep", "WARNING"} /\ log[k].arg = log[i].arg
    /\ (pc = "done" /\ Reconciled) => Range(FetchedYears) = Range(missing)

\* Reported newest first, fetched oldest first; the older year's write
\* failed before the newer year's fetch started.
C13_Witness ==
    /\ pc = "done"
    /\ missing = <<2022, 2021>>
    /\ FetchedYears = <<2021, 2022>>
    /\ ArgsOf("write") = <<2021, 2022>>
    /\ ArgsOf("WARNING") = <<2021>>

(* C14 *)

\* The number of strings of page p that match the classifier.
MatchCount(p) == Len(BodyMatchTable[PageBody(p)])

\* The years page p has a match for.
YearsOn(p) == {m[1] : m \in Range(BodyMatchTable[PageBody(p)])}

\* The pages whose response has been scanned.
ScannedPages == Len(SearchedPages) - Len(EventsOf("search_failed"))

\* How many of the pages n, n - 1, ... in a row have no match.
RECURSIVE TrailingEmpty(_)
TrailingEmpty(n) ==
    IF n = 0 \/ MatchCount(n) > 0 THEN 0 ELSE 1 + TrailingEmpty(n - 1)

BoundedWork ==
    /\ Len(SearchedPages) <= MAX_PAGES
    /\ NoDuplicates(SearchedPages)
    /\ ArgsOf("debug_search") \in {<<>>, <<1>>}
    /\ EventsOf("debug_search") # <<>> => candidates = EmptyMap
    /\ NoDuplicates(FetchedYears)
    /\ Range(FetchedYears) \subseteq DOMAIN candidates
    /\ exitStatus \in {-1, 0, 1}

\* C15: whatever the search API and the pages answer, at most MAX_PAGES
\* pages are requested during collection, page 1 is requested at most once
\* more and only for an empty mapping, each candidate year is fetched at
\* most once, and the run reaches an exit status.
C15_BoundedWorkAndExit == []BoundedWork /\ <>(pc = "done" /\ exitStatus \in {0, 1})

\* All MAX_PAGES pages were requested, both candidate years were fetched
\* and the run has exited.
C15_Witness ==
    /\ pc = "done"
    /\ exitStatus = 0
    /\ Len(SearchedPages) = MAX_PAGES
    /\ Len(FetchedYears) = 2

(* C16 *)

\* The years that have an archive file now and had none before the run.
CreatedYears == {y \in ArchiveYears : disk0[y] = NoFile /\ disk[y] # NoFile}

\* The years the loop gave up on before it called write_markdown.
FailedBeforeWrite == WarnedYears \ Range(ArgsOf("write"))

\* C16: in the fetch loop and after it, wrote is the number of archive
\* files created in this run, every created file is for a missing year and
\* records candidates[year] as its source, and a year whose fetch or
\* extraction failed has no file.
C16_WroteCountsCreatedFiles ==
    Reconciled
        => /\ wrote = Cardinality(CreatedYears)
           /\ \A y \in CreatedYears :
                /\ y \in Range(missing)
                /\ disk[y].kind = "md"
                /\ disk[y].source_url = candidates[y]
           /\ \A y \in FailedBeforeWrite : disk[y] = NoFile

\* What holds instead: wrote counts the files written in full, each of
\* them is for a missing year and records candidates[year], a year whose
\* fetch or extraction failed has no file, and any other created file is
\* what a failed write left behind.
C16_WroteCountsFullFiles ==
    Reconciled
        => /\ wrote = Cardinality(WrittenYears)
           /\ \A y \in WrittenYears :
                y \in Range(missing) /\ disk[y].source_url = candidates[y]
           /\ \A y \in FailedBeforeWrite : disk[y] = NoFile
           /\ \A y \in CreatedYears \ WrittenYears :
                /\ disk[y] = PartialFile
                /\ y \in WarnedYears \cap Range(ArgsOf("write"))

\* The only write of the run failed and left a file behind: a file was
\* created, wrote is 0 and the run exits with 1.
C16_Witness ==
    /\ pc = "done"
    /\ exitStatus = 1
    /\ wrote = 0
    /\ \E y \in CreatedYears : disk[y] = PartialFile

====
